---- MODULE Spec2Model ----
(***************************************************************************)
(* Browser-side components of the portfolio site:                          *)
(*   - the scroll navigator       (smoothscroll.js, DOMContentLoaded body) *)
(*   - the certificate gallery    (smoothscroll.js, CertificateManager)    *)
(*   - the mobile drawer handler  (smoothscroll.js, MobileHeaderHandler)   *)
(*   - the project gallery        (projects.js, ProjectManager)            *)
(* Every event handler is one action (handlers run to completion on the    *)
(* single-threaded event loop); a fetch is split at its await.             *)
(* Indices are 0-based as in the source; a sequence s is read at s[i + 1]. *)
(***************************************************************************)
EXTENDS Integers, Sequences, FiniteSets, TLC

VARIABLES
    present,          \* the components whose script runs on the page
    certModalFirst,   \* TRUE when #cert-modal precedes #project-modal in the document
    \* ---- scroll navigator ----
    navLinks,         \* hrefs of the discovered navigation links, in document order
    sections,         \* ids of the resolved section elements, in push order
    sectionTop,       \* page layout: section id -> absolute top edge (px)
    scrollY,          \* window.scrollY
    linkStyle,        \* per navigation link: "unstyled" | "active" | "inactive"
    activeIndex,      \* activeIndex of the last updateHighlighting run
    scrollPosition,   \* scrollPosition read by the last updateHighlighting run
    scrollTimeout,    \* TRUE while the 16 ms debounce timer is pending
    highlightTimers,  \* number of pending one-shot setTimeout(updateHighlighting)
    clickedLink,      \* index of the link of the last click event, NoLink before any
    defaultPrevented, \* e.defaultPrevented of the last click event
    scrollRequest,    \* position the last click handler asked the viewport to go to
    scrollMethod,     \* primitive that performed the last click's scroll
    clickThrew,       \* TRUE when the last click handler let an exception escape
    \* ---- shared page state ----
    bodyOverflow,     \* document.body.style.overflow
    \* ---- certificate gallery ----
    certificates,     \* this.certificates
    certContainer,    \* child elements of the #certScroll container, in order
    containerWidth,   \* this.container.offsetWidth
    certPc,           \* "fetching" while init() awaits the fetch, then "done"
    certFetchOutcome, \* how the certificate fetch ended, "pending" before
    certModalDisplay, \* this.modal.style.display
    certModalText,    \* text content of the overlay: <<title, issuer, description>>
    certRendered,     \* successive renderCertificates calls on unchanged inputs (0, 1, 2 = two or more)
    certLastEvent,    \* the last event the gallery saw: "card-click", "card-enter", "close-click", "overlay-click", "content-click", "escape", "key" or "other"; "none" before any
    certWasOpen,      \* the overlay was displayed when that event arrived (FALSE for "other")
    \* ---- project gallery ----
    projects,         \* this.projects
    projSection,      \* TRUE when '.flex.overflow-y-auto' is on the page
    projContainerPresent, \* TRUE when the inner '.flex.items-stretch.p-4.gap-3' exists
    projContainer,    \* child elements of the inner project container, in order
    projErrors,       \* number of error <div>s appended to the project section
    projInitPending,  \* TRUE while initialize() awaits its loadProjects()
    projRefreshing,   \* number of refreshProjects() calls awaiting their fetch
    projModalHidden,  \* #project-modal has class 'hidden'
    projModalText,    \* <<title, description>> written by showProjectModal
    projGithubHidden, \* #modal-github has class 'hidden'
    projHfHidden,     \* #modal-huggingface has class 'hidden'
    projLastEvent,    \* the last event the gallery handled: "load-failed", "click-card", "click-button" or "other"; "none" before any
    windowOpened,     \* URL passed to window.open by the last click, <<>> if none
    modalShownByClick,\* TRUE when the last click ran showProjectModal
    githubShownBefore,\* #modal-github was revealed when the last showProjectModal began
    projRendered,     \* successive renderProjects calls on unchanged inputs (0, 1, 2 = two or more)
    \* ---- mobile header handler ----
    innerWidth,       \* window.innerWidth
    headerInPage,     \* TRUE when some header selector matches an element of the page
    headerDisplay,    \* style.display of that element
    mobPc,            \* "new" after the constructor's field initialisation, "ready" once setup() has run
    header,           \* this.header is set
    hamburgerButton,  \* this.hamburgerButton is set
    drawer,           \* this.drawer is set
    backdrop,         \* this.backdrop is set
    domHamburgers,    \* number of .mobile-hamburger-btn elements in the document
    domDrawers,       \* number of .mobile-drawer elements in the document
    domBackdrops,     \* number of .mobile-drawer-backdrop elements in the document
    isOpen,           \* this.isOpen
    isMobile,         \* this.isMobile
    isSmallMobile,    \* this.isSmallMobile
    drawerTransform,  \* this.drawer.style.transform, "" without a drawer
    backdropVisibility, \* this.backdrop.style.visibility, "" without a backdrop
    ariaExpanded,     \* aria-expanded of this.hamburgerButton, "" without a button
    escapeListener,   \* TRUE once setupEventListeners() has added its keydown listener
    resizeListeners,  \* number of resize listeners added by setupResizeListener()
    resizeTimers,     \* listeners (1..resizeListeners) whose 250 ms timer is pending
    mobLastEvent,     \* the last event the handler saw: "hamburger", "backdrop", "close-button", "nav-item", "escape", "key", "api", "touch", "touchend" or "other"; "none" before any
    wasOpen,          \* this.isOpen when that event arrived (FALSE for "other")
    touchStartY,      \* startY of setupTouchGestures (closure of the current drawer)
    touchCurrentY,    \* currentY of setupTouchGestures
    touching,         \* TRUE between a touchstart on the drawer and its touchend
    touchEndY,        \* clientY of the last touch point of the current or last gesture
    burstStart,       \* this.isMobile when the last resize event arrived: "mobile" or "desktop"; "none" before any and after refresh()
    burstSetups       \* setup() calls made by resize handlers since the last resize event

navVars == <<navLinks, sections, sectionTop, scrollY, linkStyle, activeIndex,
             scrollPosition, scrollTimeout, highlightTimers, clickedLink,
             defaultPrevented, scrollRequest, scrollMethod, clickThrew>>

certVars == <<certificates, certContainer, containerWidth, certPc,
              certFetchOutcome, certModalDisplay, certModalText, certRendered,
              certLastEvent, certWasOpen>>

projVars == <<projects, projSection, projContainerPresent, projContainer,
              projErrors, projInitPending, projRefreshing, projModalHidden,
              projModalText, projGithubHidden, projHfHidden, projLastEvent,
              windowOpened, modalShownByClick, githubShownBefore,
              projRendered>>

mobVars == <<innerWidth, headerInPage, headerDisplay, mobPc, header,
             hamburgerButton, drawer, backdrop, domHamburgers, domDrawers,
             domBackdrops, isOpen, isMobile, isSmallMobile, drawerTransform,
             backdropVisibility, ariaExpanded, escapeListener, resizeListeners,
             resizeTimers, mobLastEvent, wasOpen, touchStartY, touchCurrentY,
             touching, touchEndY, burstStart, burstSetups>>

vars == <<present, certModalFirst, navVars, bodyOverflow, certVars, projVars, mobVars>>

\* what a handler of one component leaves alone: the other components
NavOnly ==
    UNCHANGED <<present, certModalFirst, bodyOverflow, certVars, projVars,
                mobVars>>
CertOnly == UNCHANGED <<present, certModalFirst, navVars, projVars, mobVars>>
ProjOnly == UNCHANGED <<present, certModalFirst, navVars, certVars, mobVars>>
MobOnly == UNCHANGED <<present, certModalFirst, navVars, certVars, projVars>>

\* what a click handled by the project gallery leaves alone outside its own
\* state: everything but the text of the elements that document.getElementById
\* may resolve to ('modal-title', 'modal-image', 'modal-description')
ProjClickOnly ==
    UNCHANGED <<present, certModalFirst, navVars, mobVars, certificates,
                certContainer, containerWidth, certPc, certFetchOutcome,
                certModalDisplay, certRendered, certLastEvent, certWasOpen>>

----------------------------------------------------------------------------
(* Bounds of the model *)
MaxLinks == 2
MaxTimers == 2
MaxCerts == 3
MaxProjects == 2
MaxErrors == 1
MaxListeners == 3
MaxCount == 5

----------------------------------------------------------------------------
(* Scroll navigator *)

HeaderOffset == 80
HighlightOffset == 150
Infinity == -1

\* optional values are sequences of length at most one
NoLink == <<>>
NoRequest == <<>>

SectionIds == {"about", "contact"}
Hrefs == {"#about", "#contact", "#missing"}
Layouts == { [about |-> 0, contact |-> 300],
             [about |-> 300, contact |-> 300],
             [about |-> 600, contact |-> 0] }
ScrollPositions == {0, 150, 300}

BoundedSeq(S, n) == UNION { [1..k -> S] : k \in 0..n }

\* href.substring(1)
Substring1(href) ==
    CASE href = "#about" -> "about"
      [] href = "#contact" -> "contact"
      [] OTHER -> "missing"

\* document.getElementById(id) finds an element
GetElementById(id) == id \in SectionIds

RECURSIVE ResolveSections(_)
ResolveSections(links) ==
    IF links = <<>> THEN <<>>
    ELSE LET sectionId == Substring1(Head(links))
         IN  IF GetElementById(sectionId)
             THEN <<sectionId>> \o ResolveSections(Tail(links))
             ELSE ResolveSections(Tail(links))

Abs(x) == IF x < 0 THEN -x ELSE x

\* section.getBoundingClientRect().top with the window scrolled to y
RectTop(s, y) == sectionTop[s] - y

CloserOrEqual(distance, bestScore) == bestScore = Infinity \/ distance <= bestScore
Closer(distance, bestScore) == bestScore = Infinity \/ distance < bestScore

RECURSIVE ScanSections(_, _, _, _, _)
ScanSections(secs, index, y, bestScore, active) ==
    IF index >= Len(secs) THEN active
    ELSE LET absoluteTop == RectTop(secs[index + 1], y) + y
             distance == Abs((y + HighlightOffset) - absoluteTop)
         IN  IF Closer(distance, bestScore)
             THEN ScanSections(secs, index + 1, y, distance, index)
             ELSE ScanSections(secs, index + 1, y, bestScore, active)

StyleAllActive(index, active) == "active"
StyleFor(index, active) == IF index = active THEN "active" ELSE "inactive"

updateHighlighting ==
    IF Len(sections) = 0
    THEN UNCHANGED <<linkStyle, activeIndex, scrollPosition>>
    ELSE LET a == ScanSections(sections, 0, scrollY, Infinity, 0)
         IN  /\ scrollPosition' = scrollY
             /\ activeIndex' = a
             /\ linkStyle' = [i \in 1..Len(navLinks) |-> StyleFor(i - 1, a)]

InitNav ==
    /\ navLinks \in BoundedSeq(Hrefs, MaxLinks)
    /\ sectionTop \in Layouts
    /\ sections = ResolveSections(navLinks)
    /\ scrollY \in ScrollPositions
    /\ linkStyle = [i \in 1..Len(navLinks) |-> "unstyled"]
    /\ activeIndex = 0
    /\ scrollPosition = 0
    /\ scrollTimeout = FALSE
    /\ highlightTimers = 1
    /\ clickedLink = NoLink
    /\ defaultPrevented = FALSE
    /\ scrollRequest = NoRequest
    /\ scrollMethod = "none"
    /\ clickThrew = FALSE

\* the navigator is not on the page
IdleNav ==
    /\ navLinks = <<>>
    /\ sectionTop = [about |-> 0, contact |-> 300]
    /\ sections = <<>>
    /\ scrollY = 0
    /\ linkStyle = <<>>
    /\ activeIndex = 0
    /\ scrollPosition = 0
    /\ scrollTimeout = FALSE
    /\ highlightTimers = 0
    /\ clickedLink = NoLink
    /\ defaultPrevented = FALSE
    /\ scrollRequest = NoRequest
    /\ scrollMethod = "none"
    /\ clickThrew = FALSE

ClampScroll(p) == IF p < 0 THEN 0 ELSE p

\* element.scrollIntoView({block: 'start'}): the element's top edge is
\* aligned with the top of the viewport
ScrollIntoViewPosition(s) == sectionTop[s]

\* METHOD 2 / METHOD 3 target position
RectPosition(s, y) == RectTop(s, y) + y - HeaderOffset
OffsetTopPosition(s) == sectionTop[s] - HeaderOffset

\* the user scrolls; the scroll event may or may not be delivered
Scroll(y, delivered) ==
    /\ "nav" \in present
    /\ y # scrollY
    /\ scrollY' = y
    /\ scrollTimeout' = (scrollTimeout \/ delivered)
    /\ UNCHANGED <<navLinks, sections, sectionTop, linkStyle, activeIndex,
                   scrollPosition, highlightTimers, clickedLink,
                   defaultPrevented, scrollRequest, scrollMethod, clickThrew>>
    /\ NavOnly

ScrollTimeoutFire ==
    /\ scrollTimeout
    /\ scrollTimeout' = FALSE
    /\ updateHighlighting
    /\ UNCHANGED <<navLinks, sections, sectionTop, scrollY, highlightTimers,
                   clickedLink, defaultPrevented, scrollRequest, scrollMethod,
                   clickThrew>>
    /\ NavOnly

IntervalIdle ==
    /\ "nav" \in present
    /\ UNCHANGED vars
IntervalTick ==
    /\ "nav" \in present
    /\ updateHighlighting
    /\ UNCHANGED <<navLinks, sections, sectionTop, scrollY, scrollTimeout,
                   highlightTimers, clickedLink, defaultPrevented,
                   scrollRequest, scrollMethod, clickThrew>>
    /\ NavOnly

HighlightTimerFire ==
    /\ highlightTimers > 0
    /\ highlightTimers' = highlightTimers - 1
    /\ updateHighlighting
    /\ UNCHANGED <<navLinks, sections, sectionTop, scrollY, scrollTimeout,
                   clickedLink, defaultPrevented, scrollRequest, scrollMethod,
                   clickThrew>>
    /\ NavOnly

\* click on navLinks[index]; the t* inputs say which primitives throw
ClickNavLink(index, tIntoView, tRect, tScrollTo, tInstant, delivered) ==
    /\ index \in 0..(Len(navLinks) - 1)
    /\ highlightTimers < MaxTimers
    /\ clickedLink' = <<index>>
    /\ LET sectionId == Substring1(navLinks[index + 1])
       IN  IF ~GetElementById(sectionId)
           THEN /\ defaultPrevented' = FALSE
                /\ scrollRequest' = NoRequest
                /\ scrollMethod' = "none"
                /\ clickThrew' = FALSE
                /\ UNCHANGED <<scrollY, scrollTimeout, highlightTimers>>
           ELSE /\ defaultPrevented' = TRUE
                /\ IF ~tIntoView
                   THEN /\ scrollRequest' = <<ScrollIntoViewPosition(sectionId)>>
                        /\ scrollMethod' = "scrollIntoView"
                        /\ clickThrew' = FALSE
                        /\ highlightTimers' = highlightTimers + 1
                   ELSE LET targetPosition ==
                                IF ~tRect THEN RectPosition(sectionId, scrollY)
                                ELSE OffsetTopPosition(sectionId)
                        IN  /\ scrollRequest' =
                                 IF tScrollTo /\ tInstant THEN NoRequest
                                 ELSE <<targetPosition>>
                            /\ scrollMethod' =
                                 IF ~tScrollTo THEN "scrollTo"
                                 ELSE IF ~tInstant THEN "instant"
                                 ELSE "none"
                            /\ clickThrew' = (tScrollTo /\ tInstant)
                            /\ highlightTimers' =
                                 IF tScrollTo /\ tInstant THEN highlightTimers
                                 ELSE highlightTimers + 1
                /\ scrollY' = IF scrollRequest' = NoRequest THEN scrollY
                              ELSE ClampScroll(scrollRequest'[1])
                /\ scrollTimeout' =
                     (scrollTimeout \/ (delivered /\ scrollY' # scrollY))
    /\ UNCHANGED <<navLinks, sections, sectionTop, linkStyle, activeIndex,
                   scrollPosition>>
    /\ NavOnly

NavStep ==
    \/ \E y \in ScrollPositions, delivered \in BOOLEAN : Scroll(y, delivered)
    \/ ScrollTimeoutFire
    \/ IntervalTick
    \/ HighlightTimerFire
    \/ \E index \in 0..(MaxLinks - 1),
          tIntoView \in BOOLEAN, tRect \in BOOLEAN,
          tScrollTo \in BOOLEAN, tInstant \in BOOLEAN, delivered \in BOOLEAN :
            ClickNavLink(index, tIntoView, tRect, tScrollTo, tInstant, delivered)

----------------------------------------------------------------------------
(* Certificate gallery *)

CertRecords ==
    { [name |-> "AWS", issuer |-> "Amazon", description |-> "Cloud"],
      [name |-> "ML", issuer |-> "", description |-> ""] }
ContainerWidths == {100, 400, 800}
FetchOutcomes == {"ok", "http_error", "network_error", "invalid_json"}

\* the JSON array a fetch delivers; a failed fetch delivers nothing
FetchedData(outcome, Records, n) ==
    IF outcome = "ok" THEN BoundedSeq(Records, n) ELSE {<<>>}

RECURSIVE GCD(_, _)
GCD(a, b) == IF b = 0 THEN a ELSE GCD(b, a % b)

\* the quotient a / n of two integers, n > 0, as a fraction <<num, den>> in lowest terms
QuotientFloor(a, n) == <<a \div n, 1>>
Quotient(a, n) ==
    LET g == GCD(Abs(a), n) IN <<a \div g, n \div g>>

Min(a, b) == IF a < b THEN a ELSE b

\* the value a cardWidth fraction stands for is at most k
FracLeq(f, k) == f[1] <= k * f[2]

calculateCardWidth(W, numCards) ==
    LET gap == 16
        containerPadding == 24
        availableWidth == W - containerPadding - (gap * (numCards - 1))
    IN  IF numCards = 0 THEN <<160, 1>>
        ELSE IF numCards = 1 THEN <<Min(300, W - containerPadding), 1>>
        ELSE IF availableWidth > 120 * numCards
             THEN Quotient(availableWidth, numCards)
             ELSE <<120, 1>>

ErrorParagraph ==
    [kind |-> "error", index |-> 0, text |-> <<"Failed to load certificates.">>,
     width |-> <<>>, small |-> FALSE]
StaleElement ==
    [kind |-> "stale", index |-> 0, text |-> <<"placeholder">>,
     width |-> <<>>, small |-> FALSE]

\* one .cert-card element; cert.name || '' and cert.issuer || '' keep the strings
CertCard(cert, idx, cardWidth) ==
    [kind |-> "card", index |-> idx, text |-> <<cert.name, cert.issuer>>,
     width |-> cardWidth, small |-> FracLeq(cardWidth, 180)]

\* this.container.innerHTML = ''
KeepInnerHTML(content) == content
ClearInnerHTML(content) == <<>>

\* children of the container after renderCertificates()
renderCertificates(content, certs, W) ==
    LET cardWidth == calculateCardWidth(W, Len(certs))
    IN  ClearInnerHTML(content) \o
        [i \in 1..Len(certs) |-> CertCard(certs[i], i - 1, cardWidth)]

InitCert ==
    /\ certificates = <<>>
    /\ certContainer \in {<<>>, <<StaleElement>>}
    /\ containerWidth \in ContainerWidths
    /\ certPc = "fetching"
    /\ certFetchOutcome = "pending"
    /\ certModalDisplay = "none"
    /\ certModalText = <<"", "", "">>
    /\ certRendered = 0
    /\ certLastEvent = "none"
    /\ certWasOpen = FALSE

\* the certificate gallery is not on the page
IdleCert ==
    /\ certificates = <<>>
    /\ certContainer = <<>>
    /\ containerWidth = 0
    /\ certPc = "fetching"
    /\ certFetchOutcome = "pending"
    /\ certModalDisplay = "none"
    /\ certModalText = <<"", "", "">>
    /\ certRendered = 0
    /\ certLastEvent = "none"
    /\ certWasOpen = FALSE

\* a fetch completion or a resize
CertOtherEvent == certLastEvent' = "other" /\ certWasOpen' = FALSE

\* a click or a keydown
CertModalEvent(event) ==
    certLastEvent' = event /\ certWasOpen' = (certModalDisplay = "flex")

\* init() resumes after "await this.loadCertificates()": the rest of
\* loadCertificates, then renderCertificates, then the resize listener
CertFetchDone(outcome, data) ==
    /\ "cert" \in present
    /\ certPc = "fetching"
    /\ certPc' = "done"
    /\ certFetchOutcome' = outcome
    /\ LET loaded == IF outcome = "ok" THEN data ELSE certificates
           afterLoad == IF outcome = "ok" THEN certContainer
                        ELSE <<ErrorParagraph>>
       IN  /\ certificates' = loaded
           /\ certContainer' = renderCertificates(afterLoad, loaded, containerWidth)
    /\ certRendered' = 1
    /\ CertOtherEvent
    /\ UNCHANGED <<containerWidth, certModalDisplay, certModalText, bodyOverflow>>
    /\ CertOnly

\* a window resize leaves the container w wide; the listener installed by
\* init() re-renders
CertResize(w) ==
    /\ "cert" \in present
    /\ containerWidth' = w
    /\ IF certPc = "done"
       THEN /\ certContainer' = renderCertificates(certContainer, certificates, w)
            /\ certRendered' =
                 IF certRendered >= 1 /\ w = containerWidth THEN 2 ELSE 1
       ELSE UNCHANGED <<certContainer, certRendered>>
    /\ CertOtherEvent
    /\ UNCHANGED <<certificates, certPc, certFetchOutcome, certModalDisplay,
                   certModalText, bodyOverflow>>
    /\ CertOnly

OrElse(value, default) == IF value = "" THEN default ELSE value

showModal(cert) ==
    /\ certModalText' =
         << cert.name,
            IF cert.issuer # "" THEN "Issued by " \o cert.issuer ELSE "",
            OrElse(cert.description, "No description available.") >>
    /\ certModalDisplay' = "flex"
    /\ bodyOverflow' = "hidden"

hideModalKeepOverflow ==
    /\ certModalDisplay' = "none"
    /\ UNCHANGED <<bodyOverflow, certModalText>>
hideModal ==
    /\ certModalDisplay' = "none"
    /\ bodyOverflow' = ""
    /\ UNCHANGED certModalText

CertUnchangedByModal ==
    UNCHANGED <<certificates, certContainer, containerWidth, certPc,
                certFetchOutcome, certRendered>>

\* click on the k-th card (0-based)
CertCardClick(k) ==
    /\ k \in 0..(Len(certContainer) - 1)
    /\ certContainer[k + 1].kind = "card"
    /\ showModal(certificates[certContainer[k + 1].index + 1])
    /\ CertModalEvent("card-click")
    /\ CertUnchangedByModal
    /\ CertOnly

\* keydown on the k-th card; the event then bubbles to the document listener
CertCardKeydown(k, key) ==
    /\ k \in 0..(Len(certContainer) - 1)
    /\ certContainer[k + 1].kind = "card"
    /\ IF key = "Enter" \/ key = " "
       THEN showModal(certificates[certContainer[k + 1].index + 1])
       ELSE IF key = "Escape" /\ certModalDisplay = "flex"
       THEN hideModal
       ELSE UNCHANGED <<certModalText, certModalDisplay, bodyOverflow>>
    /\ CertModalEvent(IF key = "Enter" \/ key = " " THEN "card-enter"
                      ELSE IF key = "Escape" THEN "escape" ELSE "key")
    /\ CertUnchangedByModal
    /\ CertOnly

CertCloseClick ==
    /\ "cert" \in present
    /\ certModalDisplay = "flex"
    /\ hideModal
    /\ CertModalEvent("close-click")
    /\ CertUnchangedByModal
    /\ CertOnly

\* click inside the overlay; target is the overlay itself or its content area
CertModalClick(target) ==
    /\ "cert" \in present
    /\ certModalDisplay = "flex"
    /\ IF target = "overlay" THEN hideModal
       ELSE UNCHANGED <<certModalText, certModalDisplay, bodyOverflow>>
    /\ CertModalEvent(IF target = "overlay" THEN "overlay-click"
                      ELSE "content-click")
    /\ CertUnchangedByModal
    /\ CertOnly

CertKeydown(key) ==
    /\ "cert" \in present
    /\ IF key = "Escape" /\ certModalDisplay = "flex" THEN hideModal
       ELSE UNCHANGED <<certModalText, certModalDisplay, bodyOverflow>>
    /\ CertModalEvent(IF key = "Escape" THEN "escape" ELSE "key")
    /\ CertUnchangedByModal
    /\ CertOnly

Keys == {"Enter", " ", "Escape", "a"}

CertStep ==
    \/ \E outcome \in FetchOutcomes :
          \E data \in FetchedData(outcome, CertRecords, MaxCerts) :
             CertFetchDone(outcome, data)
    \/ \E w \in ContainerWidths : CertResize(w)
    \/ \E k \in 0..(MaxCerts - 1) : CertCardClick(k)
    \/ \E k \in 0..(MaxCerts - 1), key \in Keys : CertCardKeydown(k, key)
    \/ CertCloseClick
    \/ \E target \in {"overlay", "content"} : CertModalClick(target)
    \/ \E key \in Keys : CertKeydown(key)

----------------------------------------------------------------------------
(* Project gallery *)

\* an optional field that is absent (or empty) is the empty string: both are falsy
ProjectRecords ==
    { [title |-> "Plain", description |-> "no links",
       github |-> "", huggingface |-> "", hugging_face |-> ""],
      [title |-> "Repo", description |-> "source only",
       github |-> "https://github.com/repo", huggingface |-> "", hugging_face |-> ""],
      [title |-> "Model", description |-> "model only",
       github |-> "", huggingface |-> "https://huggingface.co/model", hugging_face |-> ""],
      [title |-> "Alias", description |-> "model under the alias key",
       github |-> "", huggingface |-> "", hugging_face |-> "https://huggingface.co/alias"],
      [title |-> "Both", description |-> "source and model",
       github |-> "https://github.com/both", huggingface |-> "https://huggingface.co/both",
       hugging_face |-> ""] }

Truthy(v) == v # ""

\* a || b
Or(a, b) == IF Truthy(a) THEN a ELSE b

\* buttonHTML of createProjectCard, as the list of button classes it holds
CardButtonsIndependent(project) ==
    (IF Truthy(project.github) THEN <<"github-btn">> ELSE <<>>) \o
    (IF Truthy(Or(project.huggingface, project.hugging_face))
     THEN <<"huggingface-btn">> ELSE <<>>)
CardButtons(project) ==
    IF Truthy(project.github) THEN <<"github-btn">>
    ELSE IF Truthy(Or(project.huggingface, project.hugging_face))
         THEN <<"huggingface-btn">>
         ELSE <<>>

createProjectCardZero(project, index) ==
    [kind |-> "card", index |-> 0, text |-> <<project.title>>,
     buttons |-> CardButtons(project)]

\* the card element: data-project-index, title and action button
createProjectCard(project, index) ==
    [kind |-> "card", index |-> index, text |-> <<project.title>>,
     buttons |-> CardButtons(project)]

ProjStaleElement ==
    [kind |-> "stale", index |-> 0, text |-> <<"placeholder">>, buttons |-> <<>>]

\* this.projectContainer.innerHTML = ''
ClearProjectContainer(content) == <<>>

\* children of the inner container after renderProjects()
renderProjects(content, projs) ==
    IF ~projSection \/ ~projContainerPresent THEN content
    ELSE ClearProjectContainer(content) \o
         [i \in 1..Len(projs) |-> createProjectCard(projs[i], i - 1)]

\* number of error <div>s in the section after showErrorMessage()
showErrorMessage(errors) == IF projSection THEN errors + 1 ELSE errors

InitProj ==
    /\ projects = <<>>
    /\ projSection \in BOOLEAN
    /\ projContainerPresent \in BOOLEAN
    /\ projContainerPresent => projSection
    /\ projContainer \in (IF projContainerPresent
                          THEN {<<>>, <<ProjStaleElement>>} ELSE {<<>>})
    /\ projErrors = 0
    /\ projInitPending = TRUE
    /\ projRefreshing = 0
    /\ projModalHidden = TRUE
    /\ projModalText = <<"", "">>
    /\ projGithubHidden = TRUE
    /\ projHfHidden = TRUE
    /\ projLastEvent = "none"
    /\ windowOpened = <<>>
    /\ modalShownByClick = FALSE
    /\ githubShownBefore = FALSE
    /\ projRendered = 0

\* the project gallery is not on the page
IdleProj ==
    /\ projects = <<>>
    /\ projSection = FALSE
    /\ projContainerPresent = FALSE
    /\ projContainer = <<>>
    /\ projErrors = 0
    /\ projInitPending = TRUE
    /\ projRefreshing = 0
    /\ projModalHidden = TRUE
    /\ projModalText = <<"", "">>
    /\ projGithubHidden = TRUE
    /\ projHfHidden = TRUE
    /\ projLastEvent = "none"
    /\ windowOpened = <<>>
    /\ modalShownByClick = FALSE
    /\ githubShownBefore = FALSE
    /\ projRendered = 0

\* a call of renderProjects() with the record array projs
RenderCall(projs) ==
    /\ projContainer' = renderProjects(projContainer, projs)
    /\ projRendered' =
         IF ~projSection \/ ~projContainerPresent THEN projRendered
         ELSE IF projRendered >= 1 /\ projs = projects THEN 2
         ELSE 1

\* loadProjects() after its fetch has settled
loadProjects(outcome, data) ==
    IF outcome = "ok"
    THEN /\ projects' = data
         /\ RenderCall(data)
         /\ UNCHANGED projErrors
    ELSE /\ projErrors' = showErrorMessage(projErrors)
         /\ UNCHANGED <<projects, projContainer, projRendered>>

ProjUnchangedByLoad ==
    UNCHANGED <<projSection, projContainerPresent, projModalHidden,
                projModalText, projGithubHidden, projHfHidden,
                windowOpened, modalShownByClick, githubShownBefore,
                bodyOverflow>>

\* initialize() resumes after "await this.loadProjects()" and then installs
\* the document listeners
ProjInitFetchDone(outcome, data) ==
    /\ "proj" \in present
    /\ projInitPending
    /\ projInitPending' = FALSE
    /\ loadProjects(outcome, data)
    /\ projLastEvent' = IF outcome = "ok" THEN "other" ELSE "load-failed"
    /\ UNCHANGED projRefreshing
    /\ ProjUnchangedByLoad
    /\ ProjOnly

\* refreshProjects() is called: a new fetch is started
RefreshProjects ==
    /\ "proj" \in present
    /\ projRefreshing = 0
    /\ projErrors < MaxErrors
    /\ projRefreshing' = projRefreshing + 1
    /\ projLastEvent' = "other"
    /\ UNCHANGED <<projects, projContainer, projErrors, projInitPending,
                   projRendered>>
    /\ ProjUnchangedByLoad
    /\ ProjOnly

ProjRefreshFetchDone(outcome, data) ==
    /\ projRefreshing > 0
    /\ projRefreshing' = projRefreshing - 1
    /\ loadProjects(outcome, data)
    /\ projLastEvent' = IF outcome = "ok" THEN "other" ELSE "load-failed"
    /\ UNCHANGED projInitPending
    /\ ProjUnchangedByLoad
    /\ ProjOnly

\* external call of renderProjects() ("force a re-render")
ForceRender ==
    /\ "proj" \in present
    /\ RenderCall(projects)
    /\ projLastEvent' = "other"
    /\ UNCHANGED <<projects, projErrors, projInitPending, projRefreshing>>
    /\ ProjUnchangedByLoad
    /\ ProjOnly

addProject(project) ==
    /\ "proj" \in present
    /\ Len(projects) < MaxProjects
    /\ projects' = Append(projects, project)
    /\ projLastEvent' = "other"
    /\ RenderCall(projects')
    /\ UNCHANGED <<projErrors, projInitPending, projRefreshing>>
    /\ ProjUnchangedByLoad
    /\ ProjOnly

\* projects.splice(index, 1)
Splice1(s, index) ==
    [i \in 1..(Len(s) - 1) |-> IF i <= index THEN s[i] ELSE s[i + 1]]

removeProject(index) ==
    /\ "proj" \in present
    /\ projLastEvent' = "other"
    /\ IF index >= 0 /\ index < Len(projects)
       THEN /\ projects' = Splice1(projects, index)
            /\ RenderCall(projects')
       ELSE UNCHANGED <<projects, projContainer, projRendered>>
    /\ UNCHANGED <<projErrors, projInitPending, projRefreshing>>
    /\ ProjUnchangedByLoad
    /\ ProjOnly

\* class 'hidden' of a link block after "if (link) remove('hidden') else add('hidden')"
BlockHiddenSticky(link, wasHidden) == wasHidden /\ ~Truthy(link)
BlockHidden(link, wasHidden) == ~Truthy(link)

\* document.getElementById('modal-title' / 'modal-image' /
\* 'modal-description') returns the first element with that id in document
\* order: the certificate overlay's when that overlay was appended first
FirstModalIdsAreCert == "cert" \in present /\ certModalFirst

showProjectModal(project) ==
    /\ IF FirstModalIdsAreCert
       THEN /\ certModalText' =
                 <<project.title, certModalText[2], project.description>>
            /\ UNCHANGED projModalText
       ELSE /\ projModalText' = <<project.title, project.description>>
            /\ UNCHANGED certModalText
    /\ githubShownBefore' = ~projGithubHidden
    /\ projGithubHidden' = BlockHidden(project.github, projGithubHidden)
    /\ projHfHidden' =
         BlockHidden(Or(project.huggingface, project.hugging_face), projHfHidden)
    /\ projModalHidden' = FALSE
    /\ bodyOverflow' = "hidden"

hideProjectModal ==
    /\ projModalHidden' = TRUE
    /\ bodyOverflow' = ""
    /\ UNCHANGED <<projModalText, projGithubHidden, projHfHidden,
                   githubShownBefore, certModalText>>

ModalUntouched ==
    UNCHANGED <<projModalHidden, projModalText, projGithubHidden,
                projHfHidden, githubShownBefore, bodyOverflow, certModalText>>

\* The first document click listener of setupEventListeners.
\* card:    <<k>> when e.target.closest('.project-card') is the k-th card, else <<>>
\* button:  class of the button e.target.closest(...) finds, "" when none
\* id:      e.target.id
\* (The second click listener only calls e.stopPropagation() on the document
\* itself, after the first one has run: it changes nothing.)
documentClick(card, button, id) ==
    IF card # <<>>
    THEN /\ showProjectModal(projects[projContainer[card[1] + 1].index + 1])
         /\ modalShownByClick' = TRUE
         /\ windowOpened' = <<>>
    ELSE IF button = "github-btn"
    THEN \* githubBtn.closest('.project-card') is the same search from an
         \* ancestor of e.target: it finds what the first test found
         LET projectCard == card
         IN  /\ modalShownByClick' = FALSE
             /\ windowOpened' =
                   IF projectCard = <<>> THEN <<>>   \* TypeError on null
                   ELSE LET project == projects[projContainer[projectCard[1] + 1].index + 1]
                        IN  IF Truthy(project.github) THEN <<project.github>>
                            ELSE <<>>
             /\ ModalUntouched
    ELSE IF button = "huggingface-btn"
    THEN LET projectCard == card
         IN  /\ modalShownByClick' = FALSE
             /\ windowOpened' =
                   IF projectCard = <<>> THEN <<>>   \* TypeError on null
                   ELSE LET project == projects[projContainer[projectCard[1] + 1].index + 1]
                            hfLink == Or(project.huggingface, project.hugging_face)
                        IN  IF Truthy(hfLink) THEN <<hfLink>> ELSE <<>>
             /\ ModalUntouched
    ELSE /\ modalShownByClick' = FALSE
         /\ windowOpened' = <<>>
         /\ IF id = "modal-close" \/ id = "project-modal"
            THEN hideProjectModal
            ELSE ModalUntouched

ProjUnchangedByClick ==
    UNCHANGED <<projects, projSection, projContainerPresent, projContainer,
                projErrors, projInitPending, projRefreshing, projRendered>>

\* setupEventListeners() has run
ListenersInstalled == "proj" \in present /\ ~projInitPending

\* click on the body of the k-th card, outside its button
ClickCard(k) ==
    /\ ListenersInstalled
    /\ k \in 0..(Len(projContainer) - 1)
    /\ projContainer[k + 1].kind = "card"
    /\ projLastEvent' = "click-card"
    /\ documentClick(<<k>>, "", "")
    /\ ProjUnchangedByClick
    /\ ProjClickOnly

\* click on the action button of the k-th card
ClickActionButton(k) ==
    /\ ListenersInstalled
    /\ k \in 0..(Len(projContainer) - 1)
    /\ projContainer[k + 1].kind = "card"
    /\ projContainer[k + 1].buttons # <<>>
    /\ projLastEvent' = "click-button"
    /\ documentClick(<<k>>, projContainer[k + 1].buttons[1], "")
    /\ ProjUnchangedByClick
    /\ ProjClickOnly

\* click on the overlay: its close control, its backdrop, or its content
ClickProjectModal(id) ==
    /\ ListenersInstalled
    /\ ~projModalHidden
    /\ projLastEvent' = "other"
    /\ documentClick(<<>>, "", id)
    /\ ProjUnchangedByClick
    /\ ProjClickOnly

ProjKeydown(key) ==
    /\ ListenersInstalled
    /\ IF key = "Escape" /\ ~projModalHidden THEN hideProjectModal
       ELSE ModalUntouched
    /\ projLastEvent' = "other"
    /\ UNCHANGED <<windowOpened, modalShownByClick>>
    /\ ProjUnchangedByClick
    /\ ProjOnly

ProjStep ==
    \/ \E outcome \in FetchOutcomes :
          \E data \in FetchedData(outcome, ProjectRecords, MaxProjects) :
             ProjInitFetchDone(outcome, data)
    \/ RefreshProjects
    \/ \E outcome \in FetchOutcomes :
          \E data \in FetchedData(outcome, ProjectRecords, MaxProjects) :
             ProjRefreshFetchDone(outcome, data)
    \/ ForceRender
    \/ \E project \in ProjectRecords : addProject(project)
    \/ \E index \in (0 - 1)..MaxProjects : removeProject(index)
    \/ \E k \in 0..(MaxProjects - 1) : ClickCard(k)
    \/ \E k \in 0..(MaxProjects - 1) : ClickActionButton(k)
    \/ \E id \in {"modal-close", "project-modal", "modal-description"} :
          ClickProjectModal(id)
    \/ \E key \in Keys : ProjKeydown(key)

----------------------------------------------------------------------------
(* Mobile header handler *)

MobileBreakpoint == 900
SmallMobileBreakpoint == 540

Widths == {SmallMobileBreakpoint, MobileBreakpoint, MobileBreakpoint + 1,
           MobileBreakpoint + 300}

\* checkMobile(): width <= this.options.mobileBreakpoint
BelowBreakpoint(width, breakpoint) == width < breakpoint
UpToBreakpoint(width, breakpoint) == width <= breakpoint

\* findHeader(): this.header after the search
findHeaderAlways(h) == TRUE
findHeader(h) == IF headerInPage THEN TRUE ELSE h

\* element.remove() on a held element: elements of that kind left in the document
KeepElement(held, count) == count
RemoveElement(held, count) == IF held THEN count - 1 ELSE count

\* hideOriginalHeader() / showOriginalHeader(): style.display of the page's header
LeaveOriginalHeader(h, display) == display
hideOriginalHeader(h, display) == IF h THEN "none" ELSE display
showOriginalHeader(h, display) == IF h THEN "" ELSE display

SwipeThreshold == 50

\* clientY values of touch points
TouchYs == {0, SwipeThreshold, SwipeThreshold + 51}

\* "let startY = 0; let currentY = 0;" of a setupTouchGestures() call; the
\* listeners of a removed drawer, and the gesture they were tracking, are gone
NewTouchClosure ==
    /\ touchStartY' = 0
    /\ touchCurrentY' = 0
    /\ touching' = FALSE
    /\ touchEndY' = 0

\* setup(), run with the window currently innerWidth wide
setup ==
    /\ mobPc' = "ready"
    /\ isMobile' = UpToBreakpoint(innerWidth, MobileBreakpoint)
    /\ isSmallMobile' = UpToBreakpoint(innerWidth, SmallMobileBreakpoint)
    /\ IF isMobile'
       THEN /\ header' = findHeader(header)
            /\ IF header'
               THEN \* createHamburgerButton, createDrawer,
                    \* setupEventListeners, hideOriginalHeader
                    /\ domHamburgers' = RemoveElement(hamburgerButton, domHamburgers) + 1
                    /\ hamburgerButton' = TRUE
                    /\ ariaExpanded' = "false"
                    /\ domDrawers' = RemoveElement(drawer, domDrawers) + 1
                    /\ domBackdrops' = RemoveElement(backdrop, domBackdrops) + 1
                    /\ drawer' = TRUE
                    /\ backdrop' = TRUE
                    /\ drawerTransform' = "translateY(-100%)"
                    /\ backdropVisibility' = "hidden"
                    /\ escapeListener' = TRUE
                    /\ NewTouchClosure
                    /\ headerDisplay' = hideOriginalHeader(header', headerDisplay)
               ELSE UNCHANGED <<domHamburgers, hamburgerButton, ariaExpanded,
                                domDrawers, domBackdrops, drawer, backdrop,
                                drawerTransform, backdropVisibility,
                                escapeListener, headerDisplay, touchStartY,
                                touchCurrentY, touching, touchEndY>>
       ELSE \* showOriginalHeader, removeHamburgerButton, removeDrawer
            /\ headerDisplay' = showOriginalHeader(header, headerDisplay)
            /\ domHamburgers' = RemoveElement(hamburgerButton, domHamburgers)
            /\ hamburgerButton' = FALSE
            /\ ariaExpanded' = ""
            /\ domDrawers' = RemoveElement(drawer, domDrawers)
            /\ domBackdrops' = RemoveElement(backdrop, domBackdrops)
            /\ drawer' = FALSE
            /\ backdrop' = FALSE
            /\ drawerTransform' = ""
            /\ backdropVisibility' = ""
            /\ NewTouchClosure
            /\ UNCHANGED <<header, escapeListener>>
    /\ resizeListeners' = resizeListeners + 1
    /\ UNCHANGED <<innerWidth, headerInPage, isOpen, bodyOverflow>>

InitMob ==
    /\ innerWidth \in Widths
    /\ headerInPage \in BOOLEAN
    /\ headerDisplay = ""
    /\ mobPc = "new"
    /\ header = FALSE
    /\ hamburgerButton = FALSE
    /\ drawer = FALSE
    /\ backdrop = FALSE
    /\ domHamburgers = 0
    /\ domDrawers = 0
    /\ domBackdrops = 0
    /\ isOpen = FALSE
    /\ isMobile = FALSE
    /\ isSmallMobile = FALSE
    /\ drawerTransform = ""
    /\ backdropVisibility = ""
    /\ ariaExpanded = ""
    /\ escapeListener = FALSE
    /\ resizeListeners = 0
    /\ resizeTimers = {}
    /\ mobLastEvent = "none"
    /\ wasOpen = FALSE
    /\ touchStartY = 0
    /\ touchCurrentY = 0
    /\ touching = FALSE
    /\ touchEndY = 0
    /\ burstStart = "none"
    /\ burstSetups = 0

\* the mobile header handler is not on the page
IdleMob ==
    /\ innerWidth = MobileBreakpoint + 300
    /\ headerInPage = FALSE
    /\ headerDisplay = ""
    /\ mobPc = "new"
    /\ header = FALSE
    /\ hamburgerButton = FALSE
    /\ drawer = FALSE
    /\ backdrop = FALSE
    /\ domHamburgers = 0
    /\ domDrawers = 0
    /\ domBackdrops = 0
    /\ isOpen = FALSE
    /\ isMobile = FALSE
    /\ isSmallMobile = FALSE
    /\ drawerTransform = ""
    /\ backdropVisibility = ""
    /\ ariaExpanded = ""
    /\ escapeListener = FALSE
    /\ resizeListeners = 0
    /\ resizeTimers = {}
    /\ mobLastEvent = "none"
    /\ wasOpen = FALSE
    /\ touchStartY = 0
    /\ touchCurrentY = 0
    /\ touching = FALSE
    /\ touchEndY = 0
    /\ burstStart = "none"
    /\ burstSetups = 0

\* an event that is not a click, a keydown or a call of open/close/toggle
OtherEvent == mobLastEvent' = "other" /\ wasOpen' = FALSE

\* a click, a keydown or a call of open/close/toggle
DrawerEvent(event) == mobLastEvent' = event /\ wasOpen' = isOpen

\* init(): the first setup(), on DOMContentLoaded
InitialSetup ==
    /\ "mobile" \in present
    /\ mobPc = "new"
    /\ setup
    /\ OtherEvent
    /\ UNCHANGED <<resizeTimers, burstStart, burstSetups>>
    /\ MobOnly

\* refresh()
Refresh ==
    /\ "mobile" \in present
    /\ mobPc = "ready"
    /\ resizeListeners < MaxListeners
    /\ setup
    /\ OtherEvent
    /\ burstStart' = "none"
    /\ burstSetups' = 0
    /\ UNCHANGED resizeTimers
    /\ MobOnly

\* a resize event: every registered listener restarts its 250 ms timer
ResizeEvent(w) ==
    /\ "mobile" \in present
    /\ mobPc = "ready"
    /\ resizeListeners < MaxListeners
    /\ w # innerWidth
    /\ innerWidth' = w
    /\ resizeTimers' = 1..resizeListeners
    /\ burstStart' = IF isMobile THEN "mobile" ELSE "desktop"
    /\ burstSetups' = 0
    /\ OtherEvent
    /\ UNCHANGED <<headerInPage, headerDisplay, mobPc, header, hamburgerButton,
                   drawer, backdrop, domHamburgers, domDrawers, domBackdrops,
                   isOpen, isMobile, isSmallMobile, drawerTransform,
                   backdropVisibility, ariaExpanded, escapeListener,
                   resizeListeners, bodyOverflow, touchStartY, touchCurrentY,
                   touching, touchEndY>>
    /\ MobOnly

DeviceTypeChangedAlways(wasMobile, nowMobile) == TRUE

\* "wasMobile !== this.isMobile" after checkMobile()
DeviceTypeChanged(wasMobile, nowMobile) == wasMobile # nowMobile

SetMin(S) == CHOOSE x \in S : \A y \in S : x <= y

\* the debounced resize handler of the listener whose timer expires first
ResizeTimerFire ==
    /\ resizeTimers # {}
    /\ resizeTimers' = resizeTimers \ {SetMin(resizeTimers)}
    /\ OtherEvent
    /\ UNCHANGED burstStart
    /\ LET wasMobile == isMobile
       IN  IF DeviceTypeChanged(wasMobile,
                                UpToBreakpoint(innerWidth, MobileBreakpoint))
           THEN setup /\ burstSetups' = burstSetups + 1
           ELSE /\ UNCHANGED burstSetups
                /\ isMobile' = UpToBreakpoint(innerWidth, MobileBreakpoint)
                /\ isSmallMobile' = UpToBreakpoint(innerWidth, SmallMobileBreakpoint)
                /\ UNCHANGED <<innerWidth, headerInPage, headerDisplay, mobPc,
                               header, hamburgerButton, drawer, backdrop,
                               domHamburgers, domDrawers, domBackdrops, isOpen,
                               drawerTransform, backdropVisibility, ariaExpanded,
                               escapeListener, resizeListeners, bodyOverflow,
                               touchStartY, touchCurrentY, touching, touchEndY>>
    /\ MobOnly

MobUnchangedByTouch ==
    UNCHANGED <<innerWidth, headerInPage, headerDisplay, mobPc, header,
                hamburgerButton, drawer, backdrop, domHamburgers, domDrawers,
                domBackdrops, isMobile, isSmallMobile, escapeListener,
                resizeListeners, resizeTimers, burstStart, burstSetups>>

MobUnchangedByDrawer ==
    /\ MobUnchangedByTouch
    /\ UNCHANGED <<touchStartY, touchCurrentY, touching, touchEndY>>

DrawerUntouched ==
    UNCHANGED <<isOpen, drawerTransform, backdropVisibility, ariaExpanded,
                bodyOverflow>>

showDrawer ==
    IF ~drawer \/ ~backdrop THEN DrawerUntouched
    ELSE /\ isOpen' = TRUE
         /\ backdropVisibility' = "visible"
         /\ drawerTransform' = "translateY(0)"
         /\ ariaExpanded' = IF hamburgerButton THEN "true" ELSE ariaExpanded
         /\ bodyOverflow' = "hidden"

hideDrawer ==
    IF ~drawer \/ ~backdrop THEN DrawerUntouched
    ELSE /\ isOpen' = FALSE
         /\ backdropVisibility' = "hidden"
         /\ drawerTransform' = "translateY(-100%)"
         /\ ariaExpanded' = IF hamburgerButton THEN "false" ELSE ariaExpanded
         /\ bodyOverflow' = ""

toggleDrawerOpenOnly == showDrawer
toggleDrawer == IF isOpen THEN hideDrawer ELSE showDrawer

\* click on the hamburger button
HamburgerClick ==
    /\ "mobile" \in present
    /\ hamburgerButton
    /\ toggleDrawer
    /\ DrawerEvent("hamburger")
    /\ MobUnchangedByDrawer
    /\ MobOnly

\* click on the backdrop, which takes clicks only while visible
BackdropClick ==
    /\ "mobile" \in present
    /\ backdrop
    /\ backdropVisibility = "visible"
    /\ hideDrawer
    /\ DrawerEvent("backdrop")
    /\ MobUnchangedByDrawer
    /\ MobOnly

\* click on the drawer's 'Close Menu' button or on one of its navigation items
DrawerClick(target) ==
    /\ "mobile" \in present
    /\ drawer
    /\ drawerTransform = "translateY(0)"
    /\ target \in {"close-button", "nav-item"}
    /\ hideDrawer
    /\ DrawerEvent(target)
    /\ MobUnchangedByDrawer
    /\ MobOnly

MobKeydown(key) ==
    /\ "mobile" \in present
    /\ escapeListener
    /\ IF key = "Escape" /\ isOpen THEN hideDrawer ELSE DrawerUntouched
    /\ DrawerEvent(IF key = "Escape" THEN "escape" ELSE "key")
    /\ MobUnchangedByDrawer
    /\ MobOnly

\* touchstart on the drawer, which takes touches only while displayed open
TouchStart(y) ==
    /\ "mobile" \in present
    /\ drawer
    /\ drawerTransform = "translateY(0)"
    /\ ~touching
    /\ touching' = TRUE
    /\ touchStartY' = y
    /\ touchEndY' = y
    /\ DrawerEvent("touch")
    /\ DrawerUntouched
    /\ UNCHANGED touchCurrentY
    /\ MobUnchangedByTouch
    /\ MobOnly

\* touchmove of the gesture in progress
TouchMove(y) ==
    /\ "mobile" \in present
    /\ drawer
    /\ touching
    /\ touchCurrentY' = y
    /\ touchEndY' = y
    /\ DrawerEvent("touch")
    /\ DrawerUntouched
    /\ UNCHANGED <<touchStartY, touching>>
    /\ MobUnchangedByTouch
    /\ MobOnly

\* touchend of the gesture in progress
TouchEnd ==
    /\ "mobile" \in present
    /\ drawer
    /\ touching
    /\ touching' = FALSE
    /\ LET deltaY == touchStartY - touchCurrentY
       IN  IF deltaY > SwipeThreshold THEN hideDrawer ELSE DrawerUntouched
    /\ DrawerEvent("touchend")
    /\ UNCHANGED <<touchStartY, touchCurrentY, touchEndY>>
    /\ MobUnchangedByTouch
    /\ MobOnly

\* the public open() / close() / toggle()
ApiCall(method) ==
    /\ "mobile" \in present
    /\ mobPc = "ready"
    /\ CASE method = "open" -> showDrawer
         [] method = "close" -> hideDrawer
         [] OTHER -> toggleDrawer
    /\ DrawerEvent("api")
    /\ MobUnchangedByDrawer
    /\ MobOnly

MobStep ==
    \/ InitialSetup
    \/ Refresh
    \/ \E w \in Widths : ResizeEvent(w)
    \/ ResizeTimerFire
    \/ HamburgerClick
    \/ BackdropClick
    \/ \E target \in {"close-button", "nav-item"} : DrawerClick(target)
    \/ \E key \in Keys : MobKeydown(key)
    \/ \E method \in {"open", "close", "toggle"} : ApiCall(method)
    \/ \E y \in TouchYs : TouchStart(y)
    \/ \E y \in TouchYs : TouchMove(y)
    \/ TouchEnd

----------------------------------------------------------------------------
(* The page: each script is an independent component *)

Components == {"nav", "cert", "proj", "mobile"}

InitPage(P) ==
    /\ present = P
    /\ certModalFirst = FALSE
    /\ bodyOverflow = ""
    /\ IF "nav" \in P THEN InitNav ELSE IdleNav
    /\ IF "cert" \in P THEN InitCert ELSE IdleCert
    /\ IF "proj" \in P THEN InitProj ELSE IdleProj
    /\ IF "mobile" \in P THEN InitMob ELSE IdleMob

Init == \E c \in Components : InitPage({c})

Next == NavStep \/ CertStep \/ ProjStep \/ MobStep

Spec == Init /\ [][Next]_vars

----------------------------------------------------------------------------
(* The scroll navigator with its timers running: setInterval fires every   *)
(* 100 ms for as long as the page lives, so a tick that would change the   *)
(* page is never postponed forever. Nothing forces a scroll event to be    *)
(* delivered or the 16 ms debounce timer to expire before it is restarted. *)

InitHighlight == InitPage({"nav"})

SpecHighlight == InitHighlight /\ [][NavStep]_vars /\ WF_vars(IntervalTick)

----------------------------------------------------------------------------
(* calculateCardWidth over a range of container widths and record counts:  *)
(* a gallery that loads n records, renders them, and is then resized       *)

WidthInputs == { 50 * i : i \in 0..20 } \cup {24, 144, 324}

\* the array of n records a successful fetch delivers
LoadedCertificates(n) ==
    [i \in 1..n |-> [name |-> "AWS", issuer |-> "Amazon", description |-> "Cloud"]]

InitCardWidth ==
    /\ present = {"cert"}
    /\ certModalFirst = FALSE
    /\ bodyOverflow = ""
    /\ IdleNav
    /\ IdleProj
    /\ IdleMob
    /\ certificates = <<>>
    /\ containerWidth \in WidthInputs
    /\ certContainer = <<>>
    /\ certPc = "fetching"
    /\ certFetchOutcome = "pending"
    /\ certModalDisplay = "none"
    /\ certModalText = <<"", "", "">>
    /\ certRendered = 0
    /\ certLastEvent = "none"
    /\ certWasOpen = FALSE

NextCardWidth ==
    \/ \E n \in 0..MaxCount : CertFetchDone("ok", LoadedCertificates(n))
    \/ \E w \in WidthInputs : CertResize(w)

SpecCardWidth == InitCardWidth /\ [][NextCardWidth]_vars

----------------------------------------------------------------------------
(* One page that loads the certificate gallery, the project gallery and    *)
(* the mobile header handler together, on a phone-sized window. The three  *)
(* share the document: its body style, its ids and the events that bubble  *)
(* to it. An event that only one component listens for is that component's *)
(* action; a keydown and a click on the certificate overlay's close button *)
(* reach the document listeners of the others as well.                     *)

\* the records projects.json delivers on this page
PageProjects == { p \in ProjectRecords : p.title \in {"Plain", "Repo"} }

InitShared ==
    /\ present = {"cert", "proj", "mobile"}
    /\ certModalFirst \in BOOLEAN
    /\ bodyOverflow = ""
    /\ IdleNav
    /\ InitCert
    /\ certContainer = <<>>
    /\ containerWidth = 800
    /\ InitProj
    /\ projContainerPresent
    /\ projContainer = <<>>
    /\ InitMob
    /\ innerWidth = SmallMobileBreakpoint
    /\ headerInPage

\* no overlay and no backdrop lies over the galleries
PageUncovered ==
    /\ certModalDisplay # "flex"
    /\ projModalHidden
    /\ backdropVisibility # "visible"

\* mouse click on a certificate card
PageCertCardClick(k) == PageUncovered /\ CertCardClick(k)

\* mouse click on a project card
PageClickCard(k) == PageUncovered /\ ClickCard(k)

\* click on the certificate overlay's close button (id 'modal-close'): its
\* own listener, then the project gallery's document click listener
PageCertCloseClick ==
    /\ {"cert", "proj"} \subseteq present
    /\ certModalDisplay = "flex"
    /\ hideModal
    /\ CertModalEvent("close-click")
    /\ CertUnchangedByModal
    /\ IF ListenersInstalled
       THEN /\ projLastEvent' = "other"
            /\ documentClick(<<>>, "", "modal-close")
            /\ ProjUnchangedByClick
       ELSE UNCHANGED projVars
    /\ UNCHANGED <<present, certModalFirst, navVars, mobVars>>

\* keydown on the document: the keydown listeners of the certificate
\* gallery, of the project gallery and of the mobile header handler
PageKeydown(key) ==
    /\ present = {"cert", "proj", "mobile"}
    /\ LET certCloses == key = "Escape" /\ certModalDisplay = "flex"
           projCloses == ListenersInstalled /\ key = "Escape" /\ ~projModalHidden
           drawerCloses == /\ escapeListener /\ key = "Escape" /\ isOpen
                           /\ drawer /\ backdrop
       IN  /\ certModalDisplay' = IF certCloses THEN "none" ELSE certModalDisplay
           /\ projModalHidden' = (projCloses \/ projModalHidden)
           /\ isOpen' = (isOpen /\ ~drawerCloses)
           /\ backdropVisibility' =
                 IF drawerCloses THEN "hidden" ELSE backdropVisibility
           /\ drawerTransform' =
                 IF drawerCloses THEN "translateY(-100%)" ELSE drawerTransform
           /\ ariaExpanded' =
                 IF drawerCloses /\ hamburgerButton THEN "false" ELSE ariaExpanded
           /\ bodyOverflow' =
                 IF certCloses \/ projCloses \/ drawerCloses THEN ""
                 ELSE bodyOverflow
    /\ CertModalEvent(IF key = "Escape" THEN "escape" ELSE "key")
    /\ projLastEvent' = IF ListenersInstalled THEN "other" ELSE projLastEvent
    /\ IF escapeListener
       THEN DrawerEvent(IF key = "Escape" THEN "escape" ELSE "key")
       ELSE UNCHANGED <<mobLastEvent, wasOpen>>
    /\ CertUnchangedByModal
    /\ ProjUnchangedByClick
    /\ MobUnchangedByDrawer
    /\ UNCHANGED <<certModalText, projModalText, projGithubHidden, projHfHidden,
                   githubShownBefore, windowOpened, modalShownByClick>>
    /\ UNCHANGED <<present, certModalFirst, navVars>>

NextShared ==
    \/ CertFetchDone("ok", LoadedCertificates(1))
    \/ \E project \in PageProjects : ProjInitFetchDone("ok", <<project>>)
    \/ InitialSetup
    \/ PageCertCardClick(0)
    \/ CertCardKeydown(0, "Enter")
    \/ PageCertCloseClick
    \/ \E target \in {"overlay", "content"} : CertModalClick(target)
    \/ PageClickCard(0)
    \/ \E id \in {"modal-close", "project-modal", "modal-description"} :
          ClickProjectModal(id)
    \/ HamburgerClick
    \/ \E target \in {"close-button", "nav-item"} : DrawerClick(target)
    \/ \E key \in {"Escape", "a"} : PageKeydown(key)

SpecShared == InitShared /\ [][NextShared]_vars

----------------------------------------------------------------------------
(* Properties *)

HeaderVisible == headerDisplay # "none"
ApparatusAbsent == domHamburgers = 0 /\ domDrawers = 0 /\ domBackdrops = 0
ApparatusPresent == domHamburgers >= 1 /\ domDrawers >= 1 /\ domBackdrops >= 1
DesktopShape == HeaderVisible /\ ApparatusAbsent
MobileShape == ~HeaderVisible /\ ApparatusPresent

\* C1: on a page whose header is found, once setup() has run the page shows
\* either the original header and no hamburger button, drawer or backdrop,
\* or a hidden header together with all three; never both, never neither.
C1_ExactlyOneHeaderOrApparatus ==
    (mobPc = "ready" /\ headerInPage) =>
        /\ DesktopShape \/ MobileShape
        /\ ~(DesktopShape /\ MobileShape)

\* the breakpoint has been crossed to desktop and back to mobile
C1_Witness ==
    /\ mobPc = "ready" /\ headerInPage
    /\ resizeListeners >= 3
    /\ resizeTimers = {}
    /\ isMobile /\ MobileShape

\* C2: a click on a card's action button opens the project's link with
\* window.open and does not open the detail overlay.
C2_ButtonOpensLinkOnly ==
    projLastEvent = "click-button" =>
        (windowOpened # <<>> /\ ~modalShownByClick)

HasElement(content, kind) == \E i \in 1..Len(content) : content[i].kind = kind

\* C3: after a failed certificate fetch, once init() has completed, the
\* container shows the error message, holds no card, and certificates is empty.
C3_ErrorShownAfterFailedFetch ==
    (certPc = "done" /\ certFetchOutcome # "ok") =>
        /\ HasElement(certContainer, "error")
        /\ ~HasElement(certContainer, "card")
        /\ certificates = <<>>

\* C4: when loadProjects has just failed, the project section shows an error
\* message, no project card is rendered, and projects is empty.
C4_FailedLoadReplacesCards ==
    (projLastEvent = "load-failed" /\ projSection) =>
        /\ projErrors >= 1
        /\ ~HasElement(projContainer, "card")
        /\ projects = <<>>

\* a highlighting pass has styled the links
PassRan == \E i \in 1..Len(navLinks) : linkStyle[i] # "unstyled"

\* |(scrollY + 150) - sectionTop| of the j-th resolved section at the last pass
TriggerDistance(j) ==
    Abs((scrollPosition + 150) - sectionTop[sections[j + 1]])

\* C5: the active index of a highlighting pass is the index of a section at
\* minimal distance from the trigger point, the smallest such index on a tie.
C5_ActiveIsNearestFirst ==
    PassRan =>
        /\ activeIndex \in 0..(Len(sections) - 1)
        /\ \A j \in 0..(Len(sections) - 1) :
              /\ TriggerDistance(activeIndex) <= TriggerDistance(j)
              /\ TriggerDistance(j) = TriggerDistance(activeIndex) => activeIndex <= j

\* two different sections are equally near and the first one is active
C5_Witness ==
    /\ PassRan
    /\ Len(sections) = 2
    /\ sections[1] # sections[2]
    /\ sectionTop[sections[1]] # sectionTop[sections[2]]
    /\ TriggerDistance(0) = TriggerDistance(1)
    /\ activeIndex = 0

\* C6: after a highlighting pass, every link with active styling has an href
\* whose fragment names the active section.
C6_ActiveLinkNamesActiveSection ==
    PassRan =>
        \A i \in 1..Len(navLinks) :
            linkStyle[i] = "active" =>
                Substring1(navLinks[i]) = sections[activeIndex + 1]

\* C7: a click on a link whose target resolves prevents the default and
\* drives the viewport to the section's top edge minus 80, on every path;
\* a click on a link whose target does not resolve does not prevent the default.
C7_ClickScrollsToTopMinusOffset ==
    clickedLink # NoLink =>
        LET sectionId == Substring1(navLinks[clickedLink[1] + 1])
        IN  IF GetElementById(sectionId)
            THEN /\ defaultPrevented
                 /\ scrollRequest # NoRequest =>
                       scrollRequest = <<sectionTop[sectionId] - 80>>
            ELSE ~defaultPrevented

\* C8: once setup() has run and no debounced resize handler is pending,
\* isMobile holds exactly when window.innerWidth <= 900.
C8_MobileIffWidthUpTo900 ==
    (mobPc = "ready" /\ resizeTimers = {}) =>
        (isMobile <=> innerWidth <= 900)

\* the window was resized to exactly 900 and the handlers have run
C8_Witness ==
    /\ mobPc = "ready"
    /\ resizeListeners >= 2
    /\ resizeTimers = {}
    /\ innerWidth = 900
    /\ isMobile

CertCardsMatchRecords ==
    /\ Len(certContainer) = Len(certificates)
    /\ \A i \in 1..Len(certificates) :
          /\ certContainer[i].kind = "card"
          /\ certContainer[i].text = <<certificates[i].name, certificates[i].issuer>>

ProjCardsMatchRecords ==
    /\ Len(projContainer) = Len(projects)
    /\ \A i \in 1..Len(projects) :
          /\ projContainer[i].kind = "card"
          /\ projContainer[i].text = <<projects[i].title>>

\* C9: in both galleries a render leaves one card per record, in record
\* order and with the record's text, whatever the container held before,
\* and a second render on an unchanged record array and width leaves the
\* container as the first one left it.
C9_RenderIdempotent ==
    /\ [](certRendered >= 1 => CertCardsMatchRecords)
    /\ [](projRendered >= 1 => ProjCardsMatchRecords)
    /\ [][certRendered' = 2 => certContainer' = certContainer]_vars
    /\ [][projRendered' = 2 => projContainer' = projContainer]_vars

\* the project gallery has rendered the same two records twice in a row
C9_Witness ==
    /\ projRendered = 2
    /\ Len(projContainer) = 2
    /\ ProjCardsMatchRecords

Range(s) == { s[i] : i \in 1..Len(s) }

\* C10: every rendered project card has at most one action button: a github
\* button iff github is set, a huggingface button iff github is not set and
\* huggingface or hugging_face is set.
C10_OneButtonPerCard ==
    \A i \in 1..Len(projContainer) :
        projContainer[i].kind = "card" =>
            LET project == projects[projContainer[i].index + 1]
                buttons == projContainer[i].buttons
            IN  /\ Len(buttons) <= 1
                /\ "github-btn" \in Range(buttons) <=> project.github # ""
                /\ "huggingface-btn" \in Range(buttons) <=>
                      /\ project.github = ""
                      /\ project.huggingface # "" \/ project.hugging_face # ""

\* a record with both links next to one with only the alias key
C10_Witness ==
    /\ Len(projContainer) = 2
    /\ projContainer[1].kind = "card" /\ projContainer[2].kind = "card"
    /\ projects[1].github # "" /\ projects[1].huggingface # ""
    /\ projContainer[1].buttons = <<"github-btn">>
    /\ projects[2].github = "" /\ projects[2].huggingface = ""
    /\ projects[2].hugging_face # ""
    /\ projContainer[2].buttons = <<"huggingface-btn">>

\* the record the overlay shows: showProjectModal writes its title and description
ShownRecords ==
    { p \in ProjectRecords : projModalText = <<p.title, p.description>> }

\* C11: once showProjectModal(p) has run, whatever the overlay showed before,
\* the source-repository block is revealed iff p.github is set and the
\* model-repository block is revealed iff p.huggingface or p.hugging_face is set.
C11_BlocksFollowShownRecord ==
    projModalText # <<"", "">> =>
        /\ ShownRecords # {}
        /\ \A p \in ShownRecords :
              /\ ~projGithubHidden <=> p.github # ""
              /\ ~projHfHidden <=> (p.huggingface # "" \/ p.hugging_face # "")

\* a record with only huggingface set is shown right after one with github set
C11_Witness ==
    /\ modalShownByClick
    /\ githubShownBefore
    /\ \E p \in ShownRecords :
          p.github = "" /\ p.huggingface # "" /\ p.hugging_face = ""
    /\ projGithubHidden
    /\ ~projHfHidden

\* C12: the width given to the cards is max(120, (W - 24 - 16*(n-1)) / n) for
\* n >= 2 records and min(300, W - 24) for one record, W the container width;
\* W = 800 gives 142.4 (= 712/5) for five records and 300 for one.
C12_CardWidthFormula ==
    \A i \in 1..Len(certContainer) :
        certContainer[i].kind = "card" =>
            LET W == containerWidth
                n == Len(certificates)
                r == certContainer[i].width
                a == W - 24 - 16 * (n - 1)
            IN  /\ r[2] >= 1
                /\ n = 1 =>
                      /\ r[2] = 1
                      /\ r[1] <= 300 /\ r[1] <= W - 24
                      /\ r[1] = 300 \/ r[1] = W - 24
                /\ n >= 2 =>
                      IF a >= 120 * n THEN r[1] * n = a * r[2]
                      ELSE r = <<120, 1>>
                /\ (W = 800 /\ n = 5) => r = <<712, 5>>
                /\ (W = 800 /\ n = 1) => r = <<300, 1>>

\* five records in a container resized to 800: every card is 712/5 wide
C12_Witness ==
    /\ containerWidth = 800
    /\ Len(certificates) = 5
    /\ Len(certContainer) = 5
    /\ certRendered >= 1
    /\ \A i \in 1..5 : certContainer[i].width = <<712, 5>>

\* C13: for every container width and every record count n >= 1 the width
\* given to the cards is at least 120.
C13_WidthNeverBelowMinimum ==
    \A i \in 1..Len(certContainer) :
        certContainer[i].kind = "card" =>
            certContainer[i].width[1] >= 120 * certContainer[i].width[2]

\* mobile mode with the apparatus built
ApparatusBuilt == isMobile /\ hamburgerButton /\ drawer /\ backdrop

DrawerClosed ==
    /\ ~isOpen
    /\ drawerTransform = "translateY(-100%)"
    /\ backdropVisibility = "hidden"
    /\ ariaExpanded = "false"
    /\ bodyOverflow = ""

\* C14: in mobile mode with the apparatus built, a hamburger click flips
\* isOpen; a backdrop click, an Escape keydown while open, the drawer's close
\* button and a drawer navigation item each leave the drawer closed (isOpen
\* false, transform translateY(-100%), backdrop hidden, aria-expanded 'false',
\* body overflow restored); Escape while closed changes nothing.
C14_ToggleAndClosers ==
    /\ [](ApparatusBuilt =>
            /\ mobLastEvent = "hamburger" => (isOpen <=> ~wasOpen)
            /\ mobLastEvent \in {"backdrop", "close-button", "nav-item"} =>
                  DrawerClosed
            /\ (mobLastEvent = "escape" /\ wasOpen) => DrawerClosed)
    /\ [][(ApparatusBuilt' /\ mobLastEvent' = "escape" /\ ~wasOpen') =>
             UNCHANGED <<isOpen, drawerTransform, backdropVisibility,
                         ariaExpanded, bodyOverflow, headerDisplay,
                         domHamburgers, domDrawers, domBackdrops>>]_vars

\* Escape has just closed an open drawer
C14_Witness ==
    /\ ApparatusBuilt
    /\ mobLastEvent = "escape"
    /\ wasOpen
    /\ DrawerClosed

CertOverlayOpen == certModalDisplay = "flex" /\ bodyOverflow = "hidden"
CertOverlayClosed == certModalDisplay = "none" /\ bodyOverflow = ""

\* C15: the certificate overlay opens on a card click or an Enter/Space
\* keydown on a card, with body overflow 'hidden'; it closes, with body
\* overflow reset, on a click on its close control, a click on the overlay
\* itself, or Escape while open, and on nothing else; a click inside the
\* content area leaves it open and Escape while closed changes nothing.
C15_CertOverlayOpensAndCloses ==
    /\ [](/\ certLastEvent \in {"card-click", "card-enter"} => CertOverlayOpen
          /\ certLastEvent \in {"close-click", "overlay-click"} => CertOverlayClosed
          /\ (certLastEvent = "escape" /\ certWasOpen) => CertOverlayClosed
          /\ certLastEvent = "content-click" => CertOverlayOpen)
    /\ [][(certModalDisplay = "flex" /\ certModalDisplay' # "flex") =>
             certLastEvent' \in {"close-click", "overlay-click", "escape"}]_vars
    /\ [][(certModalDisplay # "flex" /\ certModalDisplay' = "flex") =>
             certLastEvent' \in {"card-click", "card-enter"}]_vars
    /\ [][(certLastEvent' = "escape" /\ ~certWasOpen') =>
             UNCHANGED <<certModalDisplay, certModalText, bodyOverflow,
                         certContainer, certificates>>]_vars

\* a click on the overlay outside its content area has closed it
C15_Witness ==
    /\ certLastEvent = "overlay-click"
    /\ certWasOpen
    /\ CertOverlayClosed
    /\ certModalText[1] # ""

\* C16: on a page where no header selector matches, once setup() has run the
\* handler holds and the page contains no hamburger button, drawer or backdrop,
\* open() and toggle() leave isOpen false and the page as it was, and a resize
\* listener is installed whose handler still tracks the width.
C16_NoHeaderDegradesSilently ==
    (mobPc = "ready" /\ ~headerInPage) =>
        /\ ~header /\ ~hamburgerButton /\ ~drawer /\ ~backdrop
        /\ ApparatusAbsent
        /\ ~isOpen
        /\ bodyOverflow = ""
        /\ headerDisplay = ""
        /\ drawerTransform = "" /\ backdropVisibility = "" /\ ariaExpanded = ""
        /\ resizeListeners >= 1
        /\ resizeTimers = {} => (isMobile <=> innerWidth <= 900)

\* open() or toggle() has just been called at a mobile width reached by a
\* resize, on a page without a header
C16_Witness ==
    /\ mobPc = "ready" /\ ~headerInPage
    /\ isMobile /\ innerWidth <= 900
    /\ resizeListeners >= 2
    /\ mobLastEvent = "api"
    /\ ~isOpen /\ bodyOverflow = ""

\* C17: the document never holds more than one hamburger button, one drawer
\* and one backdrop of the handler, and holds one exactly when the handler
\* holds a reference to it.
C17_AtMostOneApparatus ==
    /\ domHamburgers = (IF hamburgerButton THEN 1 ELSE 0)
    /\ domDrawers = (IF drawer THEN 1 ELSE 0)
    /\ domBackdrops = (IF backdrop THEN 1 ELSE 0)

\* the apparatus has been rebuilt at least twice and is present once
C17_Witness ==
    /\ mobPc = "ready" /\ isMobile
    /\ resizeListeners >= 3
    /\ mobLastEvent = "other"
    /\ domHamburgers = 1 /\ domDrawers = 1 /\ domBackdrops = 1

\* |(y + 150) - sectionTop| of the j-th resolved section with the window at y
DistanceAt(j, y) == Abs((y + 150) - sectionTop[sections[j + 1]])

\* the link styles are those of a highlighting pass at the current position:
\* the active index is the first nearest section for scrollY and the link at
\* that index is the only one styled active
HighlightCurrent ==
    Len(sections) > 0 =>
        /\ scrollPosition = scrollY
        /\ activeIndex \in 0..(Len(sections) - 1)
        /\ \A j \in 0..(Len(sections) - 1) :
              /\ DistanceAt(activeIndex, scrollY) <= DistanceAt(j, scrollY)
              /\ DistanceAt(j, scrollY) = DistanceAt(activeIndex, scrollY) =>
                    activeIndex <= j
        /\ \A i \in 1..Len(navLinks) :
              linkStyle[i] = (IF i - 1 = activeIndex THEN "active" ELSE "inactive")

\* C18: unless the scroll position keeps changing forever, the highlighting
\* eventually is, and stays, that of the current position, whether or not
\* scroll events are delivered and whether or not the debounced update ever
\* gets to run: the periodic timer alone brings it about.
C18_EventuallyHighlighted ==
    ([]<><<TRUE>>_scrollY) \/ (<>[]HighlightCurrent)

\* the window rests away from the top with no debounce timer pending and the
\* initial one-shot update still to come, and the second section is highlighted
C18_Witness ==
    /\ Len(sections) = 2
    /\ sections[1] # sections[2]
    /\ scrollY # 0
    /\ ~scrollTimeout
    /\ highlightTimers = 1
    /\ clickedLink = NoLink
    /\ PassRan
    /\ HighlightCurrent
    /\ activeIndex = 1

\* C19: whichever scrolling primitives throw, a click on a link whose target
\* resolves is served by scrollIntoView, by window.scrollTo with options or
\* by the immediate window.scrollTo(x, y), and no exception leaves the handler.
C19_FallbackChainNeverThrows ==
    clickedLink # NoLink =>
        /\ ~clickThrew
        /\ GetElementById(Substring1(navLinks[clickedLink[1] + 1])) =>
              scrollMethod \in {"scrollIntoView", "scrollTo", "instant"}

ActiveLinks == { i \in 1..Len(navLinks) : linkStyle[i] = "active" }

\* C20: after a highlighting pass with at least one resolved section exactly
\* one link is styled active and every other link is styled inactive; with no
\* resolved section the passes leave every link style as it was.
C20_ExactlyOneActiveLink ==
    /\ PassRan =>
          /\ Cardinality(ActiveLinks) = 1
          /\ \A i \in 1..Len(navLinks) : linkStyle[i] \in {"active", "inactive"}
    /\ Len(sections) = 0 =>
          \A i \in 1..Len(navLinks) : linkStyle[i] = "unstyled"

\* two links, the second one active after a pass
C20_Witness ==
    /\ Len(navLinks) = 2
    /\ Len(sections) = 2
    /\ PassRan
    /\ linkStyle = <<"inactive", "active">>

\* the drawer exists and is displayed in its open position
DrawerShownOpen ==
    /\ drawer /\ backdrop
    /\ drawerTransform = "translateY(0)"
    /\ backdropVisibility = "visible"

\* C22: once setup() has run, whenever the drawer is not displayed open (also
\* after a resize to desktop tore the apparatus down while it was open) the
\* body overflow is restored and isOpen is false.
C22_ClosedDrawerRestoresScroll ==
    (mobPc = "ready" /\ ~DrawerShownOpen) =>
        (bodyOverflow = "" /\ ~isOpen)

\* C23: once setup() has run, isOpen is true exactly when a drawer exists and
\* is displayed open (transform translateY(0), backdrop visible, hamburger
\* aria-expanded 'true').
C23_IsOpenMatchesDrawer ==
    mobPc = "ready" =>
        (isOpen <=> (DrawerShownOpen /\ ariaExpanded = "true"))

\* C25: a touch gesture that ends on an open drawer closes it exactly when
\* the gesture's start Y minus the Y where that gesture ended exceeds 50; a
\* tap (no touchmove) therefore never closes it.
C25_SwipeClosesIffUpwardDrag ==
    (ApparatusBuilt /\ mobLastEvent = "touchend" /\ wasOpen) =>
        (~isOpen <=> (touchStartY - touchEndY > 50))

\* C26: once every debounce timer of a burst of resize events has run, the
\* resize handlers have called setup() exactly once if the window settled on
\* the other side of the 900 px breakpoint and not at all if it settled on
\* the same side, however many resize listeners earlier setup() calls left.
C26_OneSetupPerCrossingBurst ==
    (burstStart # "none" /\ resizeTimers = {}) =>
        burstSetups = IF (burstStart = "mobile") # (innerWidth <= 900)
                      THEN 1 ELSE 0

\* a burst that crossed the breakpoint has settled with two listeners
\* registered before it and a third added by its single setup()
C26_Witness ==
    /\ burstStart # "none"
    /\ resizeTimers = {}
    /\ (burstStart = "mobile") # (innerWidth <= 900)
    /\ burstSetups = 1
    /\ resizeListeners >= 3

\* the .project-card elements of the inner container, in document order
ProjectCards == SelectSeq(projContainer, LAMBDA e : e.kind = "card")

\* C27: with the project container present, the rendered project cards are
\* as many as the records and the k-th card carries data-project-index k
\* and the k-th record's title; a click on the k-th card fills the overlay
\* from the k-th record; removeProject with an index below 0 or not below
\* projects.length changes neither the records nor the container.
C27_CardsFollowRecords ==
    /\ [](projContainerPresent =>
            /\ Len(ProjectCards) = Len(projects)
            /\ \A k \in 0..(Len(projects) - 1) :
                  /\ ProjectCards[k + 1].index = k
                  /\ ProjectCards[k + 1].text = <<projects[k + 1].title>>)
    /\ [][\A k \in 0..(MaxProjects - 1) :
            (projContainerPresent /\ ClickCard(k)) =>
                /\ ~projModalHidden'
                /\ projModalText' =
                      <<projects[k + 1].title, projects[k + 1].description>>]_vars
    /\ [][\A index \in (0 - 1)..MaxProjects :
            (removeProject(index) /\ (index < 0 \/ index >= Len(projects))) =>
                UNCHANGED <<projects, projContainer>>]_vars

\* after records were removed and added, a click on the second of two
\* different cards has opened the overlay with the second record
C27_Witness ==
    /\ projContainerPresent
    /\ projRendered >= 1
    /\ projLastEvent = "click-card"
    /\ Len(projects) = 2
    /\ Len(ProjectCards) = 2
    /\ projects[1] # projects[2]
    /\ ~projModalHidden
    /\ projModalText = <<projects[2].title, projects[2].description>>

\* C21: while the certificate overlay, the project overlay or the mobile
\* drawer is open, document.body.style.overflow is 'hidden', whatever the
\* other two components have opened or closed meanwhile.
C21_ScrollSuppressedWhileAnyOverlayOpen ==
    (certModalDisplay = "flex" \/ ~projModalHidden \/ DrawerShownOpen) =>
        bodyOverflow = "hidden"

\* C24: with both galleries on one page, whichever overlay comes first in
\* the document, a click on a project card writes the record's title and
\* description into the project overlay and leaves the certificate
\* overlay's text alone, and a click on the certificate overlay's close
\* button changes nothing of the project overlay.
C24_OverlaysKeepToTheirOwnElements ==
    [][/\ \A k \in 0..(MaxProjects - 1) :
            PageClickCard(k) =>
                /\ projModalText' =
                      <<projects[k + 1].title, projects[k + 1].description>>
                /\ UNCHANGED certModalText
       /\ PageCertCloseClick =>
            UNCHANGED <<projModalHidden, projModalText, projGithubHidden,
                        projHfHidden>>]_vars

====
